---------------------------- MODULE Spec2Model ----------------------------
(***************************************************************************)
(* Send path of the eth sub-protocol (trinity/protocol/eth/proto.py).      *)
(*                                                                         *)
(* A Python method  m(self, arg)  is translated to an operator that        *)
(* returns a record                                                        *)
(*     [self |-> the instance after the body ran,                          *)
(*      arg  |-> the caller's argument after the body ran,                 *)
(*      cmd  |-> the command object the body constructed,                  *)
(*      data |-> the payload the body handed to cmd.encode]                *)
(* The codec (Command.encode) and the transport (Protocol.send) live       *)
(* outside proto.py and are modelled from the interface description.       *)
(***************************************************************************)
EXTENDS Integers, Sequences, FiniteSets, TLC

VARIABLES
    proto,   \* the ETHProtocol instance, class attributes included
    wire,    \* frames accepted by the transport's send primitive, oldest first
    sent,    \* history: for each frame of wire, the call that handed it over
    returned,\* history: number of calls that returned normally
    last,    \* history: what the caller observed of the last whole call
    tasks    \* per task: position inside a sender and its locals

vars == <<proto, wire, sent, returned, last, tasks>>

-----------------------------------------------------------------------------
(* Bounds of the model *)

\* longest hash sequence / response sequence a caller passes
MaxLen == 2
\* most frames on the wire when whole calls are made one after the other
MaxWire == 1
\* most frames on the wire when two tasks interleave
MaxFrames == 3

-----------------------------------------------------------------------------
(* Input domains *)

Hashes == {"H1", "H2"}

Tasks == {1, 2}

\* all sequences over S of length lo..hi
SeqsBetween(S, lo, hi) ==
    UNION { [1..n -> S] : n \in lo..hi }

HashSeqs == SeqsBetween(Hashes, 1, MaxLen)

\* p2p.peer.ChainInfo
ChainInfos ==
    [total_difficulty : {100, 200}, block_hash : Hashes, genesis_hash : {"G1"}]

\* Union[BlockNumber, Hash32]: the Python value carries its type
BlockNumber(n) == [kind |-> "number", value |-> n]
Hash32(h) == [kind |-> "hash", value |-> h]
BlockNumbersOrHashes == {BlockNumber(42), Hash32("H1")}

HeaderRequests ==
    [block_number_or_hash : BlockNumbersOrHashes,
     max_headers : {1, 5}, skip : {0, 1}, reverse : BOOLEAN]

NodeDataRequests == [node_hashes : HashSeqs]
BlockBodiesRequests == [block_hashes : HashSeqs]
ReceiptsRequests == [block_hashes : HashSeqs]

\* the arguments of _send_get_block_headers, as one record of keywords
HeaderKwargs == HeaderRequests

NodeSeqs == SeqsBetween({"node1", "node2"}, 0, MaxLen)
HeaderSeqs == SeqsBetween({"header1", "header2"}, 0, MaxLen)
BlockSeqs == SeqsBetween({"body1", "body2"}, 0, MaxLen)
ReceiptLists == SeqsBetween({<<>>, <<"receipt1">>}, 0, MaxLen)
TransactionSeqs == SeqsBetween({"tx1", "tx2"}, 0, MaxLen)

\* the sessions an instance is set up for: the offset the multiplexer gave
\* the sub-protocol (after the 16 base commands, or after one more
\* sub-protocol) and the peer's network
Sessions ==
    {[cmd_id_offset |-> 16, network_id |-> 1],
     [cmd_id_offset |-> 33, network_id |-> 3]}

-----------------------------------------------------------------------------
(* The class and its instance *)

\* mutant (C1): NodeData and GetNodeData change places in the table
ETHProtocol_TableReordered(cmd_id_offset, network_id) ==
    [name |-> "eth",
     version |-> 63,
     _commands |-> <<"Status", "NewBlockHashes", "Transactions",
                     "GetBlockHeaders", "BlockHeaders", "GetBlockBodies",
                     "BlockBodies", "NewBlock", "NodeData", "GetNodeData",
                     "GetReceipts", "Receipts">>,
     cmd_length |-> 17,
     cmd_id_offset |-> cmd_id_offset,
     peer |-> [network_id |-> network_id]]

\* mutant (C2): the width is taken from the table's length
ETHProtocol_WidthFromTable(cmd_id_offset, network_id) ==
    [name |-> "eth",
     version |-> 63,
     _commands |-> <<"Status", "NewBlockHashes", "Transactions",
                     "GetBlockHeaders", "BlockHeaders", "GetBlockBodies",
                     "BlockBodies", "NewBlock", "GetNodeData", "NodeData",
                     "GetReceipts", "Receipts">>,
     cmd_length |-> 12,
     cmd_id_offset |-> cmd_id_offset,
     peer |-> [network_id |-> network_id]]

\* class ETHProtocol: its attributes, and the two the session sets up
ETHProtocol(cmd_id_offset, network_id) ==
    [name |-> "eth",
     version |-> 63,
     _commands |-> <<"Status", "NewBlockHashes", "Transactions",
                     "GetBlockHeaders", "BlockHeaders", "GetBlockBodies",
                     "BlockBodies", "NewBlock", "GetNodeData", "NodeData",
                     "GetReceipts", "Receipts">>,
     cmd_length |-> 17,
     cmd_id_offset |-> cmd_id_offset,
     peer |-> [network_id |-> network_id]]


-----------------------------------------------------------------------------
(* Collaborators outside proto.py: the codec and the transport *)

\* the sub-protocol's message kinds with their relative index 0..N-1
CommandDefinitions ==
    <<"Status", "NewBlockHashes", "Transactions", "GetBlockHeaders",
      "BlockHeaders", "GetBlockBodies", "BlockBodies", "NewBlock",
      "GetNodeData", "NodeData", "GetReceipts", "Receipts">>

RelativeIndex(kind) ==
    (CHOOSE i \in DOMAIN CommandDefinitions : CommandDefinitions[i] = kind) - 1

\* Cmd(cmd_id_offset): a command object bound to the session's offset
Command(kind, cmd_id_offset) ==
    [kind |-> kind,
     cmd_id_offset |-> cmd_id_offset,
     cmd_id |-> cmd_id_offset + RelativeIndex(kind)]

\* the codec's field order of the two commands whose payload is a mapping
Structure(kind) ==
    IF kind = "Status"
    THEN <<"protocol_version", "network_id", "td", "best_hash", "genesis_hash">>
    ELSE IF kind = "GetBlockHeaders"
    THEN <<"block_number_or_hash", "max_headers", "skip", "reverse">>
    ELSE <<>>

\* a mapping is serialised as the list of its values in the structure's
\* order; a sequence is serialised item by item, in order
EncodePayload(kind, data) ==
    IF Structure(kind) # <<>>
    THEN [i \in DOMAIN Structure(kind) |-> data[Structure(kind)[i]]]
    ELSE [i \in DOMAIN data |-> data[i]]

\* cmd.encode(data) -> (header, body)
Encode(cmd, data) ==
    [header |-> [cmd_id |-> cmd.cmd_id],
     body |-> [kind |-> cmd.kind, payload |-> EncodePayload(cmd.kind, data)]]

\* self.send(header, body): the transport takes one frame
send(w, header, body) ==
    Append(w, [header |-> header, body |-> body])

\* what a collaborator may do during a call: work, or raise
Faults ==
    {[at |-> "none", exc |-> "None"],
     [at |-> "encode", exc |-> "SerializationError"],
     [at |-> "send", exc |-> "ConnectionError"]}

-----------------------------------------------------------------------------
(* The senders of ETHProtocol: what each constructs and hands to encode *)

\* mutant (C3): best_hash and genesis_hash take each other's value
send_handshake_HashesSwapped(self, head_info) ==
    [self |-> self,
     arg |-> head_info,
     cmd |-> Command("Status", self.cmd_id_offset),
     data |-> [protocol_version |-> self.version,
               network_id |-> self.peer.network_id,
               td |-> head_info.total_difficulty,
               best_hash |-> head_info.genesis_hash,
               genesis_hash |-> head_info.block_hash]]

send_handshake(self, head_info) ==
    [self |-> self,
     arg |-> head_info,
     cmd |-> Command("Status", self.cmd_id_offset),
     data |-> [protocol_version |-> self.version,
               network_id |-> self.peer.network_id,
               td |-> head_info.total_difficulty,
               best_hash |-> head_info.block_hash,
               genesis_hash |-> head_info.genesis_hash]]

_send_get_node_data(self, node_hashes) ==
    [self |-> self,
     arg |-> node_hashes,
     cmd |-> Command("GetNodeData", self.cmd_id_offset),
     data |-> node_hashes]

send_get_node_data(self, request) ==
    LET r == _send_get_node_data(self, request.node_hashes)
    IN  [self |-> r.self, arg |-> request, cmd |-> r.cmd, data |-> r.data]

send_node_data(self, nodes) ==
    [self |-> self,
     arg |-> nodes,
     cmd |-> Command("NodeData", self.cmd_id_offset),
     data |-> nodes]

\* mutant (C5): max_headers and skip take each other's value
_send_get_block_headers_SkipSwapped(self, kwargs) ==
    [self |-> self,
     arg |-> kwargs,
     cmd |-> Command("GetBlockHeaders", self.cmd_id_offset),
     data |-> [block_number_or_hash |-> kwargs.block_number_or_hash,
               max_headers |-> kwargs.skip,
               skip |-> kwargs.max_headers,
               reverse |-> kwargs.reverse]]

_send_get_block_headers(self, kwargs) ==
    [self |-> self,
     arg |-> kwargs,
     cmd |-> Command("GetBlockHeaders", self.cmd_id_offset),
     data |-> [block_number_or_hash |-> kwargs.block_number_or_hash,
               max_headers |-> kwargs.max_headers,
               skip |-> kwargs.skip,
               reverse |-> kwargs.reverse]]

send_get_block_headers(self, request) ==
    LET r == _send_get_block_headers(self,
                 [block_number_or_hash |-> request.block_number_or_hash,
                  max_headers |-> request.max_headers,
                  skip |-> request.skip,
                  reverse |-> request.reverse])
    IN  [self |-> r.self, arg |-> request, cmd |-> r.cmd, data |-> r.data]

\* mutant (C7): the call advances the instance's command-ID offset
send_block_headers_BumpsOffset(self, headers) ==
    [self |-> [self EXCEPT !.cmd_id_offset = @ + 1],
     arg |-> headers,
     cmd |-> Command("BlockHeaders", self.cmd_id_offset),
     data |-> headers]

send_block_headers(self, headers) ==
    [self |-> self,
     arg |-> headers,
     cmd |-> Command("BlockHeaders", self.cmd_id_offset),
     data |-> headers]

_send_get_block_bodies(self, block_hashes) ==
    [self |-> self,
     arg |-> block_hashes,
     cmd |-> Command("GetBlockBodies", self.cmd_id_offset),
     data |-> block_hashes]

send_get_block_bodies(self, request) ==
    LET r == _send_get_block_bodies(self, request.block_hashes)
    IN  [self |-> r.self, arg |-> request, cmd |-> r.cmd, data |-> r.data]

\* mutant (C9): the call empties the caller's list
send_block_bodies_ClearsList(self, blocks) ==
    [self |-> self,
     arg |-> <<>>,
     cmd |-> Command("BlockBodies", self.cmd_id_offset),
     data |-> blocks]

send_block_bodies(self, blocks) ==
    [self |-> self,
     arg |-> blocks,
     cmd |-> Command("BlockBodies", self.cmd_id_offset),
     data |-> blocks]

_send_get_receipts(self, block_hashes) ==
    [self |-> self,
     arg |-> block_hashes,
     cmd |-> Command("GetReceipts", self.cmd_id_offset),
     data |-> block_hashes]

\* mutant (C4): the hashes are passed on in reverse order
send_get_receipts_Reversed(self, request) ==
    LET hs == request.block_hashes
        r == _send_get_receipts(self,
                 [i \in DOMAIN hs |-> hs[Len(hs) + 1 - i]])
    IN  [self |-> r.self, arg |-> request, cmd |-> r.cmd, data |-> r.data]

send_get_receipts(self, request) ==
    LET r == _send_get_receipts(self, request.block_hashes)
    IN  [self |-> r.self, arg |-> request, cmd |-> r.cmd, data |-> r.data]

\* mutant (C6): the response is sent under the request's command
send_receipts_WrongCommand(self, receipts) ==
    [self |-> self,
     arg |-> receipts,
     cmd |-> Command("GetReceipts", self.cmd_id_offset),
     data |-> receipts]

send_receipts(self, receipts) ==
    [self |-> self,
     arg |-> receipts,
     cmd |-> Command("Receipts", self.cmd_id_offset),
     data |-> receipts]

send_transactions(self, transactions) ==
    [self |-> self,
     arg |-> transactions,
     cmd |-> Command("Transactions", self.cmd_id_offset),
     data |-> transactions]

PublicSenders ==
    {"send_handshake", "send_get_node_data", "send_node_data",
     "send_get_block_headers", "send_block_headers", "send_get_block_bodies",
     "send_block_bodies", "send_get_receipts", "send_receipts",
     "send_transactions"}

InternalSenders ==
    {"_send_get_node_data", "_send_get_block_headers",
     "_send_get_block_bodies", "_send_get_receipts"}

\* method lookup on the instance
Run(m, self, a) ==
    CASE m = "send_handshake" -> send_handshake(self, a)
      [] m = "send_get_node_data" -> send_get_node_data(self, a)
      [] m = "_send_get_node_data" -> _send_get_node_data(self, a)
      [] m = "send_node_data" -> send_node_data(self, a)
      [] m = "send_get_block_headers" -> send_get_block_headers(self, a)
      [] m = "_send_get_block_headers" -> _send_get_block_headers(self, a)
      [] m = "send_block_headers" -> send_block_headers(self, a)
      [] m = "send_get_block_bodies" -> send_get_block_bodies(self, a)
      [] m = "_send_get_block_bodies" -> _send_get_block_bodies(self, a)
      [] m = "send_block_bodies" -> send_block_bodies(self, a)
      [] m = "send_get_receipts" -> send_get_receipts(self, a)
      [] m = "_send_get_receipts" -> _send_get_receipts(self, a)
      [] m = "send_receipts" -> send_receipts(self, a)
      [] m = "send_transactions" -> send_transactions(self, a)

\* mutant (C8): a failed send is tried once more
Invoke_RetriesSend(m, self, w, a, fault) ==
    LET r == Run(m, self, a)
        encoded == Encode(r.cmd, r.data)
    IN  IF fault.at = "encode"
        THEN [self |-> r.self, arg |-> r.arg, cmd |-> r.cmd, data |-> r.data,
              wire |-> w, sends |-> 0, raised |-> fault.exc]
        ELSE IF fault.at = "send"
        THEN [self |-> r.self, arg |-> r.arg, cmd |-> r.cmd, data |-> r.data,
              wire |-> w, sends |-> 2, raised |-> fault.exc]
        ELSE [self |-> r.self, arg |-> r.arg, cmd |-> r.cmd, data |-> r.data,
              wire |-> send(w, encoded.header, encoded.body),
              sends |-> 1, raised |-> "None"]

\* One whole call: the body constructs, encode runs, send runs once.  The
\* body has no try/except: what a collaborator raises ends the call there.
Invoke(m, self, w, a, fault) ==
    LET r == Run(m, self, a)
        encoded == Encode(r.cmd, r.data)
    IN  IF fault.at = "encode"
        THEN [self |-> r.self, arg |-> r.arg, cmd |-> r.cmd, data |-> r.data,
              wire |-> w, sends |-> 0, raised |-> fault.exc]
        ELSE IF fault.at = "send"
        THEN [self |-> r.self, arg |-> r.arg, cmd |-> r.cmd, data |-> r.data,
              wire |-> w, sends |-> 1, raised |-> fault.exc]
        ELSE [self |-> r.self, arg |-> r.arg, cmd |-> r.cmd, data |-> r.data,
              wire |-> send(w, encoded.header, encoded.body),
              sends |-> 1, raised |-> "None"]

-----------------------------------------------------------------------------
(* State *)

NoCall == [called |-> FALSE, fault |-> [at |-> "none", exc |-> "None"],
           raised |-> "None", sends |-> 0, arg_intact |-> TRUE]

Idle == [pc |-> "idle", method |-> "-", arg |-> <<>>, cmd |-> <<>>,
         data |-> <<>>, header |-> <<>>, body |-> <<>>]

Init ==
    /\ proto \in { ETHProtocol(x.cmd_id_offset, x.network_id) : x \in Sessions }
    /\ wire = <<>>
    /\ sent = <<>>
    /\ returned = 0
    /\ last = NoCall
    /\ tasks = [t \in Tasks |-> Idle]

\* history entries for the frames a step added to the wire
Handed(w, w2, t, m, a, cmd, data) ==
    [i \in 1..(Len(w2) - Len(w)) |->
        [task |-> t, method |-> m, arg |-> a, cmd |-> cmd, data |-> data]]

-----------------------------------------------------------------------------
(* Whole calls, one after the other (the caller is a single task) *)

Call(m, a, fault) ==
    /\ Len(wire) < MaxWire
    /\ \A t \in Tasks : tasks[t].pc = "idle"
    /\ LET o == Invoke(m, proto, wire, a, fault)
       IN  /\ proto' = o.self
           /\ wire' = o.wire
           /\ sent' = sent \o Handed(wire, o.wire, 0, m, a, o.cmd, o.data)
           /\ returned' = IF o.raised = "None" THEN returned + 1 ELSE returned
           /\ last' = [called |-> TRUE, fault |-> fault, raised |-> o.raised,
                       sends |-> o.sends, arg_intact |-> (o.arg = a)]
    /\ UNCHANGED tasks

Call_send_handshake ==
    \E a \in ChainInfos, f \in Faults : Call("send_handshake", a, f)

Call_send_get_node_data ==
    \E a \in NodeDataRequests, f \in Faults : Call("send_get_node_data", a, f)

Call__send_get_node_data ==
    \E a \in HashSeqs, f \in Faults : Call("_send_get_node_data", a, f)

Call_send_node_data ==
    \E a \in NodeSeqs, f \in Faults : Call("send_node_data", a, f)

Call_send_get_block_headers ==
    \E a \in HeaderRequests, f \in Faults : Call("send_get_block_headers", a, f)

Call__send_get_block_headers ==
    \E a \in HeaderKwargs, f \in Faults : Call("_send_get_block_headers", a, f)

Call_send_block_headers ==
    \E a \in HeaderSeqs, f \in Faults : Call("send_block_headers", a, f)

Call_send_get_block_bodies ==
    \E a \in BlockBodiesRequests, f \in Faults : Call("send_get_block_bodies", a, f)

Call__send_get_block_bodies ==
    \E a \in HashSeqs, f \in Faults : Call("_send_get_block_bodies", a, f)

Call_send_block_bodies ==
    \E a \in BlockSeqs, f \in Faults : Call("send_block_bodies", a, f)

Call_send_get_receipts ==
    \E a \in ReceiptsRequests, f \in Faults : Call("send_get_receipts", a, f)

Call__send_get_receipts ==
    \E a \in HashSeqs, f \in Faults : Call("_send_get_receipts", a, f)

Call_send_receipts ==
    \E a \in ReceiptLists, f \in Faults : Call("send_receipts", a, f)

Call_send_transactions ==
    \E a \in TransactionSeqs, f \in Faults : Call("send_transactions", a, f)

Next ==
    \/ Call_send_handshake
    \/ Call_send_get_node_data
    \/ Call__send_get_node_data
    \/ Call_send_node_data
    \/ Call_send_get_block_headers
    \/ Call__send_get_block_headers
    \/ Call_send_block_headers
    \/ Call_send_get_block_bodies
    \/ Call__send_get_block_bodies
    \/ Call_send_block_bodies
    \/ Call_send_get_receipts
    \/ Call__send_get_receipts
    \/ Call_send_receipts
    \/ Call_send_transactions

Spec == Init /\ [][Next]_vars

-----------------------------------------------------------------------------
(* Two tasks inside senders of the same instance, statement by statement *)

\* the calls the two tasks make
TaskCalls ==
    {<<"_send_get_block_headers",
       [block_number_or_hash |-> BlockNumber(42), max_headers |-> 5,
        skip |-> 0, reverse |-> FALSE]>>,
     <<"_send_get_block_headers",
       [block_number_or_hash |-> Hash32("H1"), max_headers |-> 1,
        skip |-> 1, reverse |-> TRUE]>>,
     <<"send_block_bodies", <<"body1">>>>,
     <<"send_block_bodies", <<"body2", "body1">>>>,
     <<"send_block_headers", <<"header1", "header2">>>>}

InFlight == Cardinality({t \in Tasks : tasks[t].pc # "idle"})

\* cmd = Cmd(self.cmd_id_offset) and the payload: the locals of the call
Begin(t) ==
    \E c \in TaskCalls :
        /\ tasks[t].pc = "idle"
        /\ Len(wire) + InFlight < MaxFrames
        /\ LET r == Run(c[1], proto, c[2])
           IN  /\ proto' = r.self
               /\ tasks' = [tasks EXCEPT ![t] =
                              [pc |-> "encode", method |-> c[1], arg |-> c[2],
                               cmd |-> r.cmd, data |-> r.data,
                               header |-> <<>>, body |-> <<>>]]
        /\ UNCHANGED <<wire, sent, returned, last>>

\* header, body = cmd.encode(data)
EncodeStep(t) ==
    /\ tasks[t].pc = "encode"
    /\ LET encoded == Encode(tasks[t].cmd, tasks[t].data)
       IN  tasks' = [tasks EXCEPT ![t].pc = "send",
                                  ![t].header = encoded.header,
                                  ![t].body = encoded.body]
    /\ UNCHANGED <<proto, wire, sent, returned, last>>

\* cmd.encode raises: the call ends, nothing was sent
EncodeRaise(t) ==
    /\ tasks[t].pc = "encode"
    /\ tasks' = [tasks EXCEPT ![t] = Idle]
    /\ UNCHANGED <<proto, wire, sent, returned, last>>

\* mutant (C10): the body is read from a buffer the tasks share
FrameOf_SharedBuffer(t) ==
    [header |-> tasks[t].header,
     body |-> IF \E u \in Tasks : u # t /\ tasks[u].pc = "send"
              THEN tasks[CHOOSE u \in Tasks : u # t /\ tasks[u].pc = "send"].body
              ELSE tasks[t].body]

\* the (header, body) a task passes to self.send: its own locals
FrameOf(t) ==
    [header |-> tasks[t].header, body |-> tasks[t].body]

\* self.send(header, body), then the method returns
SendStep(t) ==
    /\ tasks[t].pc = "send"
    /\ wire' = send(wire, FrameOf(t).header, FrameOf(t).body)
    /\ sent' = sent \o Handed(wire, wire', t, tasks[t].method, tasks[t].arg,
                              tasks[t].cmd, tasks[t].data)
    /\ returned' = returned + 1
    /\ tasks' = [tasks EXCEPT ![t] = Idle]
    /\ UNCHANGED <<proto, last>>

\* self.send raises: the call ends, the transport took nothing
SendRaise(t) ==
    /\ tasks[t].pc = "send"
    /\ tasks' = [tasks EXCEPT ![t] = Idle]
    /\ UNCHANGED <<proto, wire, sent, returned, last>>

NextConc ==
    \E t \in Tasks :
        \/ Begin(t)
        \/ EncodeStep(t)
        \/ EncodeRaise(t)
        \/ SendStep(t)
        \/ SendRaise(t)

SpecConc == Init /\ [][NextConc]_vars

-----------------------------------------------------------------------------
(* Properties *)

\* the command a sender is for
CommandOf(m) ==
    CASE m = "send_handshake" -> "Status"
      [] m \in {"send_get_node_data", "_send_get_node_data"} -> "GetNodeData"
      [] m = "send_node_data" -> "NodeData"
      [] m \in {"send_get_block_headers", "_send_get_block_headers"} -> "GetBlockHeaders"
      [] m = "send_block_headers" -> "BlockHeaders"
      [] m \in {"send_get_block_bodies", "_send_get_block_bodies"} -> "GetBlockBodies"
      [] m = "send_block_bodies" -> "BlockBodies"
      [] m \in {"send_get_receipts", "_send_get_receipts"} -> "GetReceipts"
      [] m = "send_receipts" -> "Receipts"
      [] m = "send_transactions" -> "Transactions"

\* the frame one encode of the history's call i produces
FrameOfCall(i) ==
    LET encoded == Encode(sent[i].cmd, sent[i].data)
    IN  [header |-> encoded.header, body |-> encoded.body]

\* the history runs beside the wire: entry i is the call of frame i
HistoryAligned == Len(sent) = Len(wire)

\* C1: the command table has exactly the twelve version-63 entries, in the
\* fixed order (index 0 is Status, index 11 is Receipts), in every state.
C1_CommandTable ==
    /\ Len(proto._commands) = 12
    /\ proto._commands =
          <<"Status", "NewBlockHashes", "Transactions", "GetBlockHeaders",
            "BlockHeaders", "GetBlockBodies", "BlockBodies", "NewBlock",
            "GetNodeData", "NodeData", "GetReceipts", "Receipts">>
    /\ proto.version = 63

C1_Witness ==
    /\ last.called
    /\ Len(wire) = 1
    /\ sent[1].cmd.kind = proto._commands[12]

\* C2 as stated: the width of the command-ID space (cmd_length) equals the
\* number of entries of the command table.
C2_WidthIsTableLength ==
    proto.cmd_length = Len(proto._commands)

\* C2, amended: the width of the command-ID space is the constant 17; it is
\* not the number of entries of the table (12) but is no smaller, so every
\* table index lies inside the reserved space.
C2_WidthIsSeventeen ==
    /\ proto.cmd_length = 17
    /\ proto.cmd_length >= Len(proto._commands)
    /\ \A i \in DOMAIN proto._commands : i - 1 < proto.cmd_length

C2_Witness ==
    /\ last.called
    /\ Len(wire) = 1
    /\ wire[1].header.cmd_id = proto.cmd_id_offset + 11
    /\ proto.cmd_id_offset = 16

\* C3: send_handshake hands the Status codec a mapping with exactly the keys
\* protocol_version, network_id, td, best_hash, genesis_hash, holding the
\* version 63, the peer's network id and the ChainInfo's three fields, and
\* a call that returns has put exactly one frame, a Status frame, on the wire.
C3_Handshake ==
    /\ HistoryAligned
    /\ Len(wire) = returned
    /\ \A i \in DOMAIN sent :
          sent[i].method = "send_handshake" =>
             /\ DOMAIN sent[i].data =
                   {"protocol_version", "network_id", "td", "best_hash",
                    "genesis_hash"}
             /\ sent[i].data.protocol_version = 63
             /\ sent[i].data.network_id = proto.peer.network_id
             /\ sent[i].data.td = sent[i].arg.total_difficulty
             /\ sent[i].data.best_hash = sent[i].arg.block_hash
             /\ sent[i].data.genesis_hash = sent[i].arg.genesis_hash
             /\ sent[i].cmd.kind = "Status"
             /\ wire[i] = FrameOfCall(i)
             /\ wire[i].body.kind = "Status"

C3_Witness ==
    /\ Len(wire) = 1
    /\ sent[1].method = "send_handshake"
    /\ sent[1].arg.total_difficulty = 100
    /\ sent[1].arg.block_hash = "H1"
    /\ sent[1].arg.genesis_hash = "G1"
    /\ proto.peer.network_id = 1
    /\ wire[1].body.payload = <<63, 1, 100, "H1", "G1">>

\* C4: the payload send_get_node_data, send_get_block_bodies and
\* send_get_receipts hand to their Get* codec is the request's hash sequence
\* itself (same length, elements and order), it is encoded item by item in
\* that order, and it is what the internal constructor encodes when it is
\* given the sequence directly.
C4_HashesOf(i) ==
    IF sent[i].method = "send_get_node_data"
    THEN sent[i].arg.node_hashes
    ELSE sent[i].arg.block_hashes

C4_InternalOf(m) ==
    CASE m = "send_get_node_data" -> "_send_get_node_data"
      [] m = "send_get_block_bodies" -> "_send_get_block_bodies"
      [] m = "send_get_receipts" -> "_send_get_receipts"

C4_OrderPreserved ==
    /\ HistoryAligned
    /\ \A i \in DOMAIN sent :
          sent[i].method \in {"send_get_node_data", "send_get_block_bodies",
                              "send_get_receipts"} =>
             /\ sent[i].cmd.kind = CommandOf(sent[i].method)
             /\ Len(sent[i].data) = Len(C4_HashesOf(i))
             /\ \A k \in 1..Len(C4_HashesOf(i)) :
                   sent[i].data[k] = C4_HashesOf(i)[k]
             /\ wire[i].body.kind = CommandOf(sent[i].method)
             /\ wire[i].body.payload = C4_HashesOf(i)
             /\ sent[i].data =
                   Run(C4_InternalOf(sent[i].method), proto, C4_HashesOf(i)).data
             /\ \A j \in DOMAIN sent :
                   ( /\ sent[j].method = C4_InternalOf(sent[i].method)
                     /\ sent[j].arg = C4_HashesOf(i) )
                   => wire[j] = wire[i]

C4_Witness ==
    /\ Len(wire) = 1
    /\ sent[1].method = "send_get_receipts"
    /\ sent[1].arg.block_hashes = <<"H2", "H1">>
    /\ wire[1].body.payload = <<"H2", "H1">>

\* C5: send_get_block_headers encodes a mapping with exactly the keys
\* block_number_or_hash, max_headers, skip, reverse, holding the request's
\* fields unchanged; block_number_or_hash is one value, a number or a hash,
\* of the variant the request's start point has.
C5_HeaderRequestFields ==
    /\ HistoryAligned
    /\ \A i \in DOMAIN sent :
          sent[i].method = "send_get_block_headers" =>
             /\ sent[i].cmd.kind = "GetBlockHeaders"
             /\ DOMAIN sent[i].data =
                   {"block_number_or_hash", "max_headers", "skip", "reverse"}
             /\ sent[i].data.block_number_or_hash.kind \in {"number", "hash"}
             /\ sent[i].data.block_number_or_hash.kind =
                   sent[i].arg.block_number_or_hash.kind
             /\ sent[i].data.block_number_or_hash.value =
                   sent[i].arg.block_number_or_hash.value
             /\ sent[i].data.max_headers = sent[i].arg.max_headers
             /\ sent[i].data.skip = sent[i].arg.skip
             /\ sent[i].data.reverse = sent[i].arg.reverse
             /\ wire[i] = FrameOfCall(i)

C5_Witness ==
    /\ Len(wire) = 1
    /\ sent[1].method = "send_get_block_headers"
    /\ sent[1].arg = [block_number_or_hash |-> BlockNumber(42),
                      max_headers |-> 5, skip |-> 0, reverse |-> FALSE]
    /\ sent[1].data = [block_number_or_hash |-> BlockNumber(42),
                       max_headers |-> 5, skip |-> 0, reverse |-> FALSE]
    /\ wire[1].body.payload = <<BlockNumber(42), 5, 0, FALSE>>

\* C6: a call of a public sender that returns has invoked send exactly once,
\* with the (header, body) of one encode of the command that matches the
\* method, constructed with the session's command-ID offset; the wire holds
\* one frame per returned call.
C6_OneSendPerCall ==
    /\ HistoryAligned
    /\ Len(wire) = returned
    /\ (last.called /\ last.raised = "None") => last.sends = 1
    /\ \A i \in DOMAIN sent :
          sent[i].method \in PublicSenders =>
             /\ sent[i].cmd =
                   Command(CommandOf(sent[i].method), proto.cmd_id_offset)
             /\ wire[i] = FrameOfCall(i)
             /\ wire[i].header.cmd_id =
                   proto.cmd_id_offset + RelativeIndex(CommandOf(sent[i].method))

C6_Witness ==
    /\ last.called
    /\ last.raised = "None"
    /\ last.sends = 1
    /\ Len(wire) = 1
    /\ sent[1].method = "send_receipts"
    /\ wire[1].body.kind = "Receipts"
    /\ proto.cmd_id_offset = 16
    /\ wire[1].header.cmd_id = 27

\* C7: two frames of the same sender have the same command identifier, and
\* two frames of the same sender with the same argument have the same body
\* as well, whatever calls lie between them.
C7_Deterministic ==
    /\ HistoryAligned
    /\ \A i \in DOMAIN sent : \A j \in DOMAIN sent :
          sent[i].method = sent[j].method =>
             /\ wire[i].header.cmd_id = wire[j].header.cmd_id
             /\ sent[i].arg = sent[j].arg => wire[i] = wire[j]

C7_Witness ==
    /\ Len(wire) = 3
    /\ sent[1].method = "send_block_headers"
    /\ sent[3].method = "send_block_headers"
    /\ sent[1].arg = sent[3].arg
    /\ sent[2].method # "send_block_headers"
    /\ sent[1].task # sent[2].task
    /\ wire[1] = wire[3]

\* C8: an error of encode reaches the caller as raised, with send never
\* invoked; an error of send reaches the caller as raised, after one send;
\* either way the wire and the instance are as before the call.
C8_ErrorsPassThrough ==
    [][ /\ (last'.called /\ last'.fault.at = "encode") =>
              /\ last'.raised = last'.fault.exc
              /\ last'.sends = 0
              /\ wire' = wire
              /\ proto' = proto
        /\ (last'.called /\ last'.fault.at = "send") =>
              /\ last'.raised = last'.fault.exc
              /\ last'.sends = 1
              /\ wire' = wire
              /\ proto' = proto
        /\ (last'.called /\ last'.fault.at = "none") =>
              last'.raised = "None" ]_vars

C8_Witness ==
    /\ last.called
    /\ last.fault = [at |-> "send", exc |-> "ConnectionError"]
    /\ last.raised = "ConnectionError"
    /\ last.sends = 1
    /\ wire = <<>>

\* C9: no step of a sender, returning or raising, changes the instance
\* (offset, peer, version, command table, width) or the caller's argument,
\* and the instance has no attribute that holds the argument.
C9_ReadOnly ==
    [][ /\ proto' = proto
        /\ last'.arg_intact
        /\ DOMAIN proto' = {"name", "version", "_commands", "cmd_length",
                            "cmd_id_offset", "peer"} ]_vars

C9_Witness ==
    /\ last.called
    /\ last.arg_intact
    /\ Len(wire) = 1
    /\ sent[1].method = "send_block_bodies"
    /\ sent[1].arg = <<"body2", "body1">>

\* C10: with two tasks inside senders of one instance, every frame on the
\* wire has the header and the body of one encode of the call that handed it
\* over, and the wire holds one frame per returned call, in the order the
\* tasks entered send; a task that holds an encoded frame can always enter
\* send next, whatever the other task is doing (no lock, no fixed order).
C10_OwnFrame ==
    /\ HistoryAligned
    /\ Len(wire) = returned
    /\ \A t \in Tasks : tasks[t].pc = "send" => ENABLED SendStep(t)
    /\ \A i \in DOMAIN wire :
          /\ sent[i].task \in Tasks
          /\ wire[i].header = FrameOfCall(i).header
          /\ wire[i].body = FrameOfCall(i).body

\* task 1 has encoded its frame and not yet entered send, task 2 has put a
\* frame of another command on the wire meanwhile and is inside its next call
C10_Witness ==
    /\ Len(wire) = 1
    /\ sent[1].task = 2
    /\ wire[1].body.kind = "BlockBodies"
    /\ tasks[1].pc = "send"
    /\ tasks[1].body.kind = "GetBlockHeaders"
    /\ tasks[2].pc = "encode"

=============================================================================
